---- MODULE Spec2Model ----
(***************************************************************************)
(* Ticket-set state manager of the JIRA ticket tool                        *)
(* (src/jiraUI_ENG_pub_v1.2.py): the collection self.tickets, the locked   *)
(* set self.locked_tickets, the page counter self.current_page, the        *)
(* listbox self.ticket_list with its selection, and the handlers that      *)
(* change them.                                                            *)
(*                                                                         *)
(* A ticket key and a listbox label are Python strings: they are modelled  *)
(* as sequences of one-character strings, so that appending the lock       *)
(* marker, rstrip("*"), split("-"), int() and string comparison are        *)
(* computed, not assumed.                                                  *)
(***************************************************************************)
EXTENDS Integers, Sequences, FiniteSets, TLC

VARIABLES
    tickets,         \* self.tickets: list of ticket objects, insertion order
    locked_tickets,  \* self.locked_tickets: set of keys
    current_page,    \* self.current_page
    jira,            \* self.jira: TRUE a JIRA handle, FALSE None
    ticket_list,     \* self.ticket_list: the labels in the listbox, top to bottom
    selection,       \* self.ticket_list.curselection(), 1-based positions
    text_display,    \* self.text_display: what the right panel shows
    threads,         \* started fetch_details threads that have not delivered yet
    last,            \* history: the handler that ran last, its inputs and the state before it
    running,         \* the window exists: FALSE after self.destroy()
    config_file,     \* jira_config.ini: the token of [JIRA] and the tickets of [LOCKED]
    entry_token,     \* self.entry_token: the text of the API Token field
    save_token_var,  \* self.save_token_var: the "Save API Token" checkbox
    user_cache,      \* the module-level dict user_cache, as a set of <<id, name>> pairs
    call,            \* history: the last call of a module-level helper function
    nonempty_fetches \* history: the fetch_tickets calls that got a non-empty page

session_vars == <<config_file, entry_token, save_token_var>>
helper_vars == <<user_cache, call>>
\* everything but the state of the helper functions
ui_vars == <<tickets, locked_tickets, current_page, jira, ticket_list, selection,
             text_display, threads, last, running, session_vars, nonempty_fetches>>

vars == <<tickets, locked_tickets, current_page, jira, ticket_list, selection,
          text_display, threads, last, running, session_vars, helper_vars,
          nonempty_fetches>>

----------------------------------------------------------------------------
(* Bounds of the model *)

\* longest page the remote listing returns in the model (the code asks for 10)
MaxPageLen == 2
\* largest value self.current_page takes in the model
MaxPage == 2
\* fetch_details threads in flight at once
MaxThreads == 1
\* largest value self.current_page takes in the paging specification
MaxPagesOn == 3

----------------------------------------------------------------------------
(* Python strings *)

\* the characters in use, in code point order (str comparison is by code point)
CodePointOrder ==
    <<" ", "*", ",", "-", "0", "1", "2", "3", "4", "5", "6", "7", "8", "9",
      "A", "B", "C", "T">>

Ord(c) == CHOOSE i \in 1..Len(CodePointOrder) : CodePointOrder[i] = c

Digits == {"0", "1", "2", "3", "4", "5", "6", "7", "8", "9"}
Letters == {"A", "B", "C"}

Min(S) == CHOOSE x \in S : \A y \in S : x <= y

\* s < t for Python strings
RECURSIVE StrLess(_, _)
StrLess(s, t) ==
    IF t = <<>> THEN FALSE
    ELSE IF s = <<>> THEN TRUE
    ELSE IF Head(s) = Head(t) THEN StrLess(Tail(s), Tail(t))
    ELSE Ord(Head(s)) < Ord(Head(t))

\* s.rstrip("*")
RECURSIVE Rstrip(_)
Rstrip(s) ==
    IF s # <<>> /\ s[Len(s)] = "*" THEN Rstrip(SubSeq(s, 1, Len(s) - 1)) ELSE s

\* s.strip() for the whitespace in use
RECURSIVE Strip(_)
Strip(s) ==
    IF s # <<>> /\ Head(s) = " " THEN Strip(Tail(s))
    ELSE IF s # <<>> /\ s[Len(s)] = " " THEN Strip(SubSeq(s, 1, Len(s) - 1))
    ELSE s

\* s.split("-"): the list of the parts between hyphens
RECURSIVE SplitHyphen(_)
SplitHyphen(s) ==
    IF \E i \in 1..Len(s) : s[i] = "-"
    THEN LET i == Min({j \in 1..Len(s) : s[j] = "-"})
         IN  <<SubSeq(s, 1, i - 1)>> \o SplitHyphen(SubSeq(s, i + 1, Len(s)))
    ELSE <<s>>

\* int(s) raises ValueError unless s is a decimal numeral
IntParses(s) == s # <<>> /\ \A i \in 1..Len(s) : s[i] \in Digits

RECURSIVE IntOf(_)
IntOf(s) ==
    IF s = <<>> THEN 0
    ELSE 10 * IntOf(SubSeq(s, 1, Len(s) - 1)) + (Ord(s[Len(s)]) - Ord("0"))

----------------------------------------------------------------------------
(* Ticket keys and ticket objects *)

A1 == <<"A", "-", "1">>
A2 == <<"A", "-", "2">>
A3 == <<"A", "-", "3">>
B5 == <<"B", "-", "5">>
\* a key that is not PROJECT-NUMBER: only a hand-written [LOCKED] entry holds one
A1x2 == <<"A", "-", "1", "-", "2">>

\* the tickets of the remote service
RemoteKeys == {A1, A2}
\* what the [LOCKED] section of jira_config.ini may hold at startup
PersistedKeys == RemoteKeys
\* what it may hold at the startup of the display specification: any part of
\* one of these sets
DisplayKeySets == {{A2, A1, B5, A3}, {A1x2, A1, A2, B5}}

\* the summaries a remote ticket has over time
Summaries == {"s1", "s2"}

\* the DummyTicket of __init__: a key and no fields
Stub(k) == [key |-> k, fields |-> "none"]
\* an issue of the remote service: a key and its fields
Full(k, s) == [key |-> k, fields |-> s]

HasFields(t) == t.fields # "none"

KeysOf(ts) == {ts[i].key : i \in 1..Len(ts)}


\* the sequences of n distinct elements of S
InjSeqs(S, n) == {s \in [1..n -> S] : \A i, j \in 1..n : i # j => s[i] # s[j]}

\* the orders in which a Python set can be iterated
Orderings(S) == InjSeqs(S, Cardinality(S))

RECURSIVE SeqOfSet(_)
\* the elements of a set of integers, ascending
SeqOfSet(S) == IF S = {} THEN <<>> ELSE <<Min(S)>> \o SeqOfSet(S \ {Min(S)})

----------------------------------------------------------------------------
(* update_ticket_list_display *)

\* sort_key with num in place of -num
SortKeyAscending(t, locked) ==
    LET parts == SplitHyphen(t.key)
        flag  == IF t.key \in locked THEN 0 ELSE 1
    IN  IF Len(parts) = 2 /\ IntParses(parts[2])
        THEN <<flag, parts[1], IntOf(parts[2])>>
        ELSE <<flag, t.key, 0>>

\* sort_key with the flag inverted: 1 for a locked key, 0 otherwise
SortKeyUnlockedFirst(t, locked) ==
    LET parts == SplitHyphen(t.key)
        flag  == IF t.key \in locked THEN 1 ELSE 0
    IN  IF Len(parts) = 2 /\ IntParses(parts[2])
        THEN <<flag, parts[1], 0 - IntOf(parts[2])>>
        ELSE <<flag, t.key, 0>>

\* sort_key(ticket): (locked_flag, prefix, -num)
SortKey(t, locked) ==
    LET parts == SplitHyphen(t.key)
        flag  == IF t.key \in locked THEN 0 ELSE 1
    IN  IF Len(parts) = 2 /\ IntParses(parts[2])
        THEN <<flag, parts[1], 0 - IntOf(parts[2])>>
        ELSE <<flag, t.key, 0>>

\* a < b for two sort keys (Python tuple comparison)
TupleLess(a, b) ==
    \/ a[1] < b[1]
    \/ a[1] = b[1] /\ StrLess(a[2], b[2])
    \/ a[1] = b[1] /\ a[2] = b[2] /\ a[3] < b[3]

\* where sorted() puts t among the already sorted ts: after everything not greater
RECURSIVE InsertSorted(_, _, _)
InsertSorted(ts, t, locked) ==
    IF ts = <<>> THEN <<t>>
    ELSE IF TupleLess(SortKey(t, locked), SortKey(Head(ts), locked))
         THEN <<t>> \o ts
         ELSE <<Head(ts)>> \o InsertSorted(Tail(ts), t, locked)

RECURSIVE SortedFrom(_, _, _)
SortedFrom(done, rest, locked) ==
    IF rest = <<>> THEN done
    ELSE SortedFrom(InsertSorted(done, Head(rest), locked), Tail(rest), locked)

\* sorted(self.tickets, key=sort_key): a stable sort
SortedTickets(ts, locked) == SortedFrom(<<>>, ts, locked)

\* display_key without the test of endswith("*")
DisplayKeyDoubling(t, locked) == IF t.key \in locked THEN t.key \o <<"*">> ELSE t.key

\* display_key of one ticket
DisplayKey(t, locked) ==
    IF t.key \in locked /\ ~(t.key # <<>> /\ t.key[Len(t.key)] = "*")
    THEN t.key \o <<"*">>
    ELSE t.key

\* the labels update_ticket_list_display puts into the listbox
DisplayLabels(ts, locked) ==
    LET sorted_tickets == SortedTickets(ts, locked)
    IN  [i \in 1..Len(sorted_tickets) |-> DisplayKey(sorted_tickets[i], locked)]

----------------------------------------------------------------------------
(* The remote service and search_tickets *)

\* max_results of get_recent_tickets, and the step of start_at
PageSize == 10

\* start_at without the - 1
StartAtPage(page) == page * PageSize

\* start_at = (self.current_page - 1) * 10
StartAt(page) == (page - 1) * PageSize

\* an issue as the remote service returns it
RemoteTickets == {Full(k, s) : k \in RemoteKeys, s \in Summaries}

\* a page of jira.search_issues: at most MaxPageLen issues, no issue twice
Pages ==
    UNION {{p \in InjSeqs(RemoteTickets, n) :
               \A i, j \in 1..n : i # j => p[i].key # p[j].key} : n \in 0..MaxPageLen}

\* what get_recent_tickets gets from jira.search_issues: an exception or a page
ListAnswers ==
    {[ok |-> FALSE, issues |-> <<>>]} \cup {[ok |-> TRUE, issues |-> p] : p \in Pages}

\* the length of the longest prefix of s made of characters of set C
RECURSIVE RunLen(_, _)
RunLen(s, C) == IF s # <<>> /\ Head(s) \in C THEN 1 + RunLen(Tail(s), C) ELSE 0

\* re.findall(r'[A-Za-z]+-\d+', s): leftmost, greedy, non-overlapping matches
RECURSIVE FindKeys(_)
FindKeys(s) ==
    IF s = <<>> THEN <<>>
    ELSE LET l    == RunLen(s, Letters)
             rest == SubSeq(s, l + 1, Len(s))
             d    == IF rest # <<>> /\ Head(rest) = "-" THEN RunLen(Tail(rest), Digits) ELSE 0
         IN  IF l > 0 /\ d > 0
             THEN <<SubSeq(s, 1, l + 1 + d)>> \o FindKeys(SubSeq(s, l + 2 + d, Len(s)))
             ELSE FindKeys(Tail(s))

\* what the user may type into the search field
SearchInputs ==
    { <<" ">>,
      <<"A", "B">>,
      A1,
      <<" ">> \o A2 \o <<",">> \o A1 \o <<" ">>,
      A1 \o <<" ">> \o A1,
      A2 \o <<",">> \o <<"C", "-", "9">> }

\* what jira.issue(key) may do for each key of the list: raise ("none") or return
\* the issue with its current summary; a key the service does not have raises
IssueOutcomes(keys) ==
    {o \in [1..Len(keys) -> Summaries \cup {"none"}] :
        \A i \in 1..Len(keys) : keys[i] \notin RemoteKeys => o[i] = "none"}

\* the loop of search_tickets leaving at the first key whose fetch raises
RECURSIVE FetchedUntilFailure(_, _)
FetchedUntilFailure(keys, outcome) ==
    IF keys = <<>> \/ outcome[1] = "none" THEN <<>>
    ELSE <<Full(keys[1], outcome[1])>>
           \o FetchedUntilFailure(Tail(keys), [i \in 1..(Len(keys) - 1) |-> outcome[i + 1]])

\* search_tickets once the keys are extracted: the issues that could be fetched, in order
RECURSIVE FetchedIssues(_, _)
FetchedIssues(keys, outcome) ==
    IF keys = <<>> THEN <<>>
    ELSE LET n    == Len(keys)
             init == FetchedIssues(SubSeq(keys, 1, n - 1), outcome)
         IN  IF outcome[n] = "none" THEN init ELSE Append(init, Full(keys[n], outcome[n]))

----------------------------------------------------------------------------
(* The merges of fetch_tickets and search_ticket_action *)

\* the filter inverted: the tickets that are not locked
UnlockedList(ts, locked) == SelectSeq(ts, LAMBDA t : t.key \notin locked)

\* [ticket for ticket in ts if ticket.key in locked]
LockedList(ts, locked) == SelectSeq(ts, LAMBDA t : t.key \in locked)

\* the loop without its test: every ticket is appended
AppendAll(ts, new) == ts \o new

\* for ticket in new: if ticket.key not in existing_keys: ts.append(ticket),
\* with existing_keys computed once, before the loop
AppendNew(ts, new) ==
    LET existing_keys == KeysOf(ts)
    IN  ts \o SelectSeq(new, LAMBDA t : t.key \notin existing_keys)

\* d.setdefault(ticket.key, ticket): a key already there keeps its value
DictSetDefault(d, t) == IF t.key \in KeysOf(d) THEN d ELSE Append(d, t)

\* d[ticket.key] = ticket on an insertion-ordered dict, kept as the list of its values
DictSet(d, t) ==
    IF t.key \in KeysOf(d)
    THEN [i \in 1..Len(d) |-> IF d[i].key = t.key THEN t ELSE d[i]]
    ELSE Append(d, t)

RECURSIVE DictSetAll(_, _)
DictSetAll(d, ts) == IF ts = <<>> THEN d ELSE DictSetAll(DictSet(d, Head(ts)), Tail(ts))

\* lines 335-344: the collection after a search that found results
MergeSearch(ts, locked, results) ==
    LET locked_dict == DictSetAll(DictSetAll(<<>>, LockedList(ts, locked)), results)
        non_locked  == SelectSeq(results, LAMBDA t : t.key \notin locked)
    IN  AppendNew(locked_dict, non_locked)

\* the merge without the reset of the first page
MergeFetchNoReset(ts, locked, page, new_tickets) ==
    IF new_tickets # <<>> THEN AppendNew(ts, new_tickets) ELSE ts

\* the merge with the reset on every page
MergeFetchEveryPage(ts, locked, page, new_tickets) ==
    IF new_tickets # <<>> THEN AppendNew(LockedList(ts, locked), new_tickets)
    ELSE LockedList(ts, locked)

\* lines 253-262: the collection after a page listing returned new_tickets
MergeFetch(ts, locked, page, new_tickets) ==
    LET kept == IF page = 1 THEN LockedList(ts, locked) ELSE ts
    IN  IF new_tickets # <<>> THEN AppendNew(kept, new_tickets) ELSE kept

----------------------------------------------------------------------------
(* The right panel *)

\* kind: "empty", "loading" (the placeholder), "found" (the count of a search)
\* or "detail" (update_ticket_details for ticket_id)
NoText == [kind |-> "empty", n |-> 0, ticket_id |-> <<>>]
LoadingText == [kind |-> "loading", n |-> 0, ticket_id |-> <<>>]
FoundText(n) == [kind |-> "found", n |-> n, ticket_id |-> <<>>]
DetailText(id) == [kind |-> "detail", n |-> 0, ticket_id |-> id]

----------------------------------------------------------------------------
(* History *)

\* what the collection held, what was locked, the page and the token of the
\* file before a handler ran
Before ==
    [keys |-> KeysOf(tickets), locked |-> locked_tickets, page |-> current_page,
     token |-> config_file.token]

\* op: the handler; conn: what its connect_jira call did ("none": no call);
\* failed: a remote call (or the export file) failed and the handler gave up;
\* res: the issues the gateway returned; keys: the keys the handler acted on;
\* started: the fetch_details threads it started; lines: what it exported
\* start_at: the offset a page listing was asked for (-1: no listing asked)
Record(op, conn, failed, res, keys, started, lines, pre) ==
    [op |-> op, conn |-> conn, failed |-> failed, res |-> res, keys |-> keys,
     started |-> started, lines |-> lines, pre |-> pre, start_at |-> 0 - 1]

\* no helper function has been called yet
NoCall == [fn |-> "none"]

----------------------------------------------------------------------------
(* jira_config.ini: load_config, save_config, load_locked_tickets,          *)
(* save_locked_tickets                                                      *)

\* s.split(sep) for a one-character separator
RECURSIVE SplitAt(_, _)
SplitAt(s, sep) ==
    IF \E i \in 1..Len(s) : s[i] = sep
    THEN LET i == Min({j \in 1..Len(s) : s[j] = sep})
         IN  <<SubSeq(s, 1, i - 1)>> \o SplitAt(SubSeq(s, i + 1, Len(s)), sep)
    ELSE <<s>>

\* the separators left out: "".join(parts)
RECURSIVE JoinEmpty(_)
JoinEmpty(parts) ==
    IF parts = <<>> THEN <<>> ELSE Head(parts) \o JoinEmpty(Tail(parts))

\* ",".join(parts)
RECURSIVE JoinComma(_)
JoinComma(parts) ==
    IF parts = <<>> THEN <<>>
    ELSE IF Len(parts) = 1 THEN parts[1]
    ELSE parts[1] \o <<",">> \o JoinComma(Tail(parts))

\* sorted(S) for a set of strings
RECURSIVE SortedStrings(_)
SortedStrings(S) ==
    IF S = {} THEN <<>>
    ELSE LET m == CHOOSE x \in S : \A y \in S \ {x} : StrLess(x, y)
         IN  <<m>> \o SortedStrings(S \ {m})

\* what is read of the file: has_locked, section [LOCKED] with option tickets
\* exists; tickets, its value; token, the token of [JIRA] ("" by fallback).
\* No file at all reads as NoFile.
NoFile == [has_locked |-> FALSE, tickets |-> <<>>, token |-> <<>>]

\* load_config()["token"]
LoadConfig(file) == file.token

\* save_config(url, user, token): the other options of the file are kept
SaveConfig(file, token) == [file EXCEPT !.token = token]

\* load_locked_tickets()
LoadLockedTickets(file) ==
    IF file.has_locked /\ file.tickets # <<>>
    THEN LET parts == SplitAt(file.tickets, ",")
         IN  {Strip(parts[i]) : i \in 1..Len(parts)} \ {<<>>}
    ELSE {}

\* save_locked_tickets with "".join in place of ",".join
SaveLockedTicketsUnseparated(file, locked_set) ==
    [file EXCEPT !.has_locked = TRUE, !.tickets = JoinEmpty(SortedStrings(locked_set))]

\* save_locked_tickets(locked_set)
SaveLockedTickets(file, locked_set) ==
    [file EXCEPT !.has_locked = TRUE, !.tickets = JoinComma(SortedStrings(locked_set))]

\* the file an earlier run left after it saved the set locked and no token
SavedFile(locked) == SaveLockedTickets(NoFile, locked)

----------------------------------------------------------------------------
(* JiraUI.__init__ *)

\* load_locked_tickets returned the set locked; one DummyTicket per key, in the
\* iteration order of the set
Startup(locked, order) ==
    /\ locked_tickets = locked
    /\ tickets = [i \in 1..Len(order) |-> Stub(order[i])]
    /\ current_page = 1
    /\ jira = FALSE
    /\ ticket_list = DisplayLabels([i \in 1..Len(order) |-> Stub(order[i])], locked)
    /\ selection = {}
    /\ text_display = NoText
    /\ threads = <<>>
    /\ last = Record("init", "none", FALSE, <<>>, {}, <<>>, <<>>,
                     [keys |-> {}, locked |-> locked, page |-> 1, token |-> <<>>])

\* the process starts with the file as it is: the token field and the checkbox
\* are set from the file, user_cache is empty
Launched(file, order) ==
    /\ Startup(LoadLockedTickets(file), order)
    /\ running = TRUE
    /\ config_file = file
    /\ entry_token = LoadConfig(file)
    /\ save_token_var = (LoadConfig(file) # <<>>)
    /\ user_cache = {}
    /\ call = NoCall
    /\ nonempty_fetches = 0

\* the tool is started on the file an earlier run left with PersistedKeys locked
Init ==
    \E order \in Orderings(PersistedKeys) : Launched(SavedFile(PersistedKeys), order)

\* the tool is started again after the window was closed
JiraUIInit ==
    /\ ~running
    /\ \E order \in Orderings(LoadLockedTickets(config_file)) :
         LET locked == LoadLockedTickets(config_file)
             stubs  == [i \in 1..Len(order) |-> Stub(order[i])]
         IN  /\ locked_tickets' = locked
             /\ tickets' = stubs
             /\ current_page' = 1
             /\ jira' = FALSE
             /\ ticket_list' = DisplayLabels(stubs, locked)
             /\ selection' = {}
             /\ text_display' = NoText
             /\ threads' = <<>>
             /\ last' = Record("restart", "none", FALSE, <<>>, {}, <<>>, <<>>, Before)
             /\ running' = TRUE
             /\ entry_token' = LoadConfig(config_file)
             /\ save_token_var' = (LoadConfig(config_file) # <<>>)
             /\ user_cache' = {}
             /\ call' = NoCall
             /\ nonempty_fetches' = 0
             /\ UNCHANGED config_file

----------------------------------------------------------------------------
(* JiraUI.fetch_tickets *)

\* pages: the largest value self.current_page takes
Fetch(pages) ==
    /\ running
    /\ UNCHANGED <<running, session_vars, helper_vars>>
    /\ \E connOk \in BOOLEAN :
         IF ~connOk
         THEN \* connect_jira returned None: return
              /\ jira' = FALSE
              /\ last' = Record("fetch", "fail", TRUE, <<>>, {}, <<>>, <<>>, Before)
              /\ UNCHANGED <<tickets, locked_tickets, current_page, ticket_list,
                             selection, text_display, threads, nonempty_fetches>>
         ELSE \E answer \in ListAnswers :
              LET new_tickets == answer.issues
              IN  /\ new_tickets # <<>> => current_page < pages
                  /\ jira' = TRUE
                  /\ tickets' = MergeFetch(tickets, locked_tickets, current_page, new_tickets)
                  /\ current_page' = IF new_tickets # <<>> THEN current_page + 1
                                     ELSE current_page
                  /\ ticket_list' = DisplayLabels(tickets', locked_tickets)
                  /\ selection' = {}
                  /\ nonempty_fetches' = IF new_tickets # <<>> THEN nonempty_fetches + 1
                                          ELSE nonempty_fetches
                  /\ last' = [Record("fetch", "ok", ~answer.ok, new_tickets, {}, <<>>,
                                     <<>>, Before)
                                 EXCEPT !.start_at = StartAt(current_page)]
                  /\ UNCHANGED <<locked_tickets, text_display, threads>>

FetchTickets == Fetch(MaxPage)

\* the same handler in a session that pages further
FetchTicketsOn == Fetch(MaxPagesOn)

----------------------------------------------------------------------------
(* JiraUI.search_ticket_action *)

SearchTicketAction ==
    /\ running
    /\ UNCHANGED <<running, session_vars, helper_vars, nonempty_fetches>>
    /\ \E connOk \in BOOLEAN, raw \in SearchInputs :
         LET conn == IF jira THEN "none" ELSE IF connOk THEN "ok" ELSE "fail"
         IN  /\ jira => connOk   \* no connect_jira call when self.jira is set
             /\ IF conn = "fail"
                THEN /\ jira' = FALSE
                     /\ last' = Record("search", conn, TRUE, <<>>, {}, <<>>, <<>>, Before)
                     /\ UNCHANGED <<tickets, locked_tickets, current_page, ticket_list,
                                    selection, text_display, threads>>
                ELSE LET search_input == Strip(raw)
                         ticket_keys  == FindKeys(search_input)
                     IN  \E outcome \in IssueOutcomes(ticket_keys) :
                           LET results == FetchedIssues(ticket_keys, outcome)
                           IN  /\ jira' = TRUE
                               /\ IF search_input = <<>> \/ results = <<>>
                                  THEN \* the warning or "No tickets found": return
                                       /\ last' = Record("search", conn,
                                                         ticket_keys # <<>> /\ results = <<>>,
                                                         <<>>, {}, <<>>, <<>>, Before)
                                       /\ UNCHANGED <<tickets, locked_tickets, current_page,
                                                      ticket_list, selection, text_display,
                                                      threads>>
                                  ELSE /\ tickets' = MergeSearch(tickets, locked_tickets, results)
                                       /\ ticket_list' = DisplayLabels(tickets', locked_tickets)
                                       /\ selection' = {}
                                       /\ text_display' = FoundText(Len(tickets'))
                                       /\ last' = Record("search", conn, FALSE, results, {},
                                                         <<>>, <<>>, Before)
                                       /\ UNCHANGED <<locked_tickets, current_page, threads>>

----------------------------------------------------------------------------
(* JiraUI.on_ticket_select, up to the start of the fetch_details thread *)

\* the entry with the key of the loaded issue removed and the issue appended
ReplaceAppend(ts, t) == Append(SelectSeq(ts, LAMBDA u : u.key # t.key), t)

\* lines 288-291: the first entry with the key of the loaded issue is replaced
ReplaceFirst(ts, t) ==
    IF t.key \in KeysOf(ts)
    THEN LET i == Min({j \in 1..Len(ts) : ts[j].key = t.key})
         IN  [ts EXCEPT ![i] = t]
    ELSE ts

\* ticket = self.tickets[index], index the listbox position (0-based in the
\* code, 1-based here)
TicketAt(ts, index) == ts[index]

\* conns: what connect_jira may do; loads: what jira.issue may do ("none": raise)
Select(conns, loads) ==
    /\ running
    /\ UNCHANGED <<running, session_vars, helper_vars, nonempty_fetches>>
    /\ \E sel \in SUBSET (1..Len(ticket_list)), connOk \in conns \cup {TRUE},
          loaded \in loads \cup {"none"} :
         /\ selection' = sel
         /\ IF tickets = <<>> \/ sel = {}
            THEN /\ connOk /\ loaded = "none"
                 /\ last' = Record("select", "none", FALSE, <<>>, {}, <<>>, <<>>, Before)
                 /\ UNCHANGED <<tickets, locked_tickets, current_page, jira, ticket_list,
                                text_display, threads>>
            ELSE LET index    == Min(sel)
                     ticket   == TicketAt(tickets, index)
                     isLocked == ticket.key \in locked_tickets
                     conn     == IF ~isLocked THEN "none" ELSE IF connOk THEN "ok" ELSE "fail"
                     handle   == IF isLocked THEN connOk ELSE jira
                     \* jira.issue(ticket.key) raises without a handle or for an unknown key
                     canLoad  == handle /\ ticket.key \in RemoteKeys
                 IN  /\ connOk \in (IF isLocked THEN conns ELSE {TRUE})
                     /\ (HasFields(ticket) \/ conn = "fail" \/ ~canLoad) => loaded = "none"
                     /\ jira' = handle
                     /\ IF conn = "fail" \/ (~HasFields(ticket) /\ loaded = "none")
                        THEN \* the error box: return
                             /\ last' = Record("select", conn, TRUE, <<>>, {ticket.key},
                                               <<>>, <<>>, Before)
                             /\ UNCHANGED <<tickets, locked_tickets, current_page,
                                            ticket_list, text_display, threads>>
                        ELSE LET shown == IF HasFields(ticket) THEN ticket
                                          ELSE Full(ticket.key, loaded)
                                 job   == [ticket_id |-> shown.key]
                             IN  /\ Len(threads) < MaxThreads
                                 /\ tickets' = IF HasFields(ticket) THEN tickets
                                               ELSE ReplaceFirst(tickets, shown)
                                 /\ text_display' = LoadingText
                                 /\ threads' = Append(threads, job)
                                 /\ last' = Record("select", conn, FALSE,
                                                   IF HasFields(ticket) THEN <<>> ELSE <<shown>>,
                                                   {ticket.key}, <<job>>, <<>>, Before)
                                 /\ UNCHANGED <<locked_tickets, current_page, ticket_list>>

OnTicketSelect == Select(BOOLEAN, Summaries)

\* the same handler while the service cannot be reached
OnTicketSelectOffline == Select({FALSE}, {})

----------------------------------------------------------------------------
(* fetch_details hands over to update_ticket_details *)

UpdateTicketDetails ==
    /\ running
    /\ UNCHANGED <<running, session_vars, helper_vars, nonempty_fetches>>
    /\ \E i \in 1..Len(threads) :
         /\ text_display' = DetailText(threads[i].ticket_id)
         /\ threads' = SubSeq(threads, 1, i - 1) \o SubSeq(threads, i + 1, Len(threads))
         /\ last' = Record("deliver", "none", FALSE, <<>>, {threads[i].ticket_id},
                           <<>>, <<>>, Before)
         /\ UNCHANGED <<tickets, locked_tickets, current_page, jira, ticket_list, selection>>

----------------------------------------------------------------------------
(* JiraUI.lock_selected_tickets *)

\* the turn of the loop without its removal: the key is locked
LockKey(locked, ticket_display) == locked \cup {Rstrip(ticket_display)}

\* one turn of the loop: the key of the label is removed if locked, added if not
ToggleKey(locked, ticket_display) ==
    LET ticket_key == Rstrip(ticket_display)
    IN  IF ticket_key \in locked THEN locked \ {ticket_key} ELSE locked \cup {ticket_key}

\* the loop over the selected positions, in ascending order
RECURSIVE ToggleAll(_, _, _)
ToggleAll(locked, labels, indices) ==
    IF indices = <<>> THEN locked
    ELSE ToggleAll(ToggleKey(locked, labels[Head(indices)]), labels, Tail(indices))

LockSelectedTickets ==
    /\ running
    /\ UNCHANGED <<running, session_vars, helper_vars, nonempty_fetches>>
    /\ IF selection = {}
       THEN \* the warning: return
            /\ last' = Record("lock", "none", FALSE, <<>>, {}, <<>>, <<>>, Before)
            /\ UNCHANGED <<tickets, locked_tickets, current_page, jira, ticket_list,
                           selection, text_display, threads>>
       ELSE /\ locked_tickets' = ToggleAll(locked_tickets, ticket_list, SeqOfSet(selection))
            /\ ticket_list' = DisplayLabels(tickets, locked_tickets')
            /\ selection' = {}
            /\ last' = Record("lock", "none", FALSE, <<>>,
                              {Rstrip(ticket_list[i]) : i \in selection}, <<>>, <<>>, Before)
            /\ UNCHANGED <<tickets, current_page, jira, text_display, threads>>

----------------------------------------------------------------------------
(* JiraUI.export_selected_ticket_list *)

\* the lines without the marker of the labels
ExportKeys(labels, sel) ==
    LET indices == SeqOfSet(sel)
    IN  [i \in 1..Len(indices) |-> Rstrip(labels[indices[i]])]

\* lines = [self.ticket_list.get(index) for index in selected_indices]
ExportLines(labels, sel) ==
    LET indices == SeqOfSet(sel)
    IN  [i \in 1..Len(indices) |-> labels[indices[i]]]

ExportSelectedTicketList ==
    /\ running
    /\ UNCHANGED <<running, session_vars, helper_vars, nonempty_fetches>>
    /\ \E written \in BOOLEAN :
         /\ selection = {} => written   \* nothing is opened after the warning
         /\ last' = Record("export", "none", selection # {} /\ ~written, <<>>, {}, <<>>,
                           ExportLines(ticket_list, selection), Before)
         /\ UNCHANGED <<tickets, locked_tickets, current_page, jira, ticket_list,
                        selection, text_display, threads>>

----------------------------------------------------------------------------
(* The API Token field, the "Save API Token" checkbox and JiraUI.on_closing *)

\* what the user may leave in the API Token field
EntryTexts == {<<>>, <<" ">>, <<"t">>, <<"t", " ">>}

\* the user types into self.entry_token
EditToken ==
    /\ running
    /\ \E text \in EntryTexts \ {entry_token} : entry_token' = text
    /\ last' = Record("edit", "none", FALSE, <<>>, {}, <<>>, <<>>, Before)
    /\ UNCHANGED <<tickets, locked_tickets, current_page, jira, ticket_list, selection,
                   text_display, threads, running, config_file, save_token_var,
                   helper_vars, nonempty_fetches>>

\* the user clicks self.chk_save_token
ToggleSaveToken ==
    /\ running
    /\ save_token_var' = ~save_token_var
    /\ last' = Record("check", "none", FALSE, <<>>, {}, <<>>, <<>>, Before)
    /\ UNCHANGED <<tickets, locked_tickets, current_page, jira, ticket_list, selection,
                   text_display, threads, running, config_file, entry_token,
                   helper_vars, nonempty_fetches>>

\* the token without the test of the checkbox
ClosingTokenAlways(text, save) == Strip(text)

\* the token on_closing hands to save_config
ClosingToken(text, save) == IF save THEN Strip(text) ELSE <<>>

\* writes: how many of the two open(CONFIG_FILE, "w") succeed; the first that
\* fails raises out of on_closing, before self.destroy()
OnClosing ==
    /\ running
    /\ \E writes \in 0..2 :
         LET token  == ClosingToken(entry_token, save_token_var)
             first  == IF writes >= 1 THEN SaveConfig(config_file, token) ELSE config_file
             second == IF writes = 2 THEN SaveLockedTickets(first, locked_tickets)
                       ELSE first
         IN  /\ config_file' = second
             /\ running' = (writes < 2)
             /\ last' = Record("close", "none", writes < 2, <<>>, {}, <<>>, <<>>, Before)
    /\ UNCHANGED <<tickets, locked_tickets, current_page, jira, ticket_list, selection,
                   text_display, threads, entry_token, save_token_var, helper_vars,
                   nonempty_fetches>>

----------------------------------------------------------------------------

Next ==
    \/ FetchTickets
    \/ SearchTicketAction
    \/ OnTicketSelect
    \/ UpdateTicketDetails
    \/ LockSelectedTickets
    \/ ExportSelectedTicketList

Spec == Init /\ [][Next]_vars

----------------------------------------------------------------------------
(* The display specification: the tool is started with the locked keys of   *)
(* DisplayKeySets and used while the service cannot be reached, so that the  *)
(* collection stays what __init__ built and only the lock set, the listbox   *)
(* and the selection change.                                                 *)

InitDisplay ==
    \E locked \in UNION {SUBSET K : K \in DisplayKeySets} :
      \E order \in Orderings(locked) : Launched(SavedFile(locked), order)

NextDisplay ==
    \/ OnTicketSelectOffline
    \/ LockSelectedTickets
    \/ ExportSelectedTicketList

SpecDisplay == InitDisplay /\ [][NextDisplay]_vars

----------------------------------------------------------------------------
(* user_cache and get_display_name *)

\* the account ids the service knows
U1 == <<"u", "1">>
U2 == <<"u", "2">>
KnownIds == {U1, U2}

\* the sentinel of get_display_name
UnknownUser == <<"U", "n", "k", "n", "o", "w", "n", " ", "U", "s", "e", "r">>

\* what jira.user(account_id) may do: raise (ok is FALSE; also what happens
\* when jira is None), return a user with a displayName, or one without
UserAnswers ==
    { [ok |-> FALSE, has_name |-> FALSE, displayName |-> <<>>],
      [ok |-> TRUE, has_name |-> TRUE, displayName |-> <<"A", "l">>],
      [ok |-> TRUE, has_name |-> FALSE, displayName |-> <<>>] }

\* the handle jira during one call of a helper: what jira.user does for each
\* known id; for any other id it raises
Jiras == [KnownIds -> UserAnswers]

User(jira_handle, account_id) ==
    IF account_id \in DOMAIN jira_handle THEN jira_handle[account_id]
    ELSE [ok |-> FALSE, has_name |-> FALSE, displayName |-> <<>>]

\* account_id in user_cache
Cached(cache, account_id) == \E p \in cache : p[1] = account_id

\* user_cache[account_id]
CacheGet(cache, account_id) == (CHOOSE p \in cache : p[1] = account_id)[2]

\* the assignment emptying the dict first
CacheReplace(cache, account_id, name) == {<<account_id, name>>}

\* user_cache[account_id] = name
CachePut(cache, account_id, name) ==
    {p \in cache : p[1] # account_id} \cup {<<account_id, name>>}

\* get_display_name that also stores the sentinel
GetDisplayNameStoringSentinel(account_id, jira_handle, cache) ==
    IF Cached(cache, account_id)
    THEN [ret |-> CacheGet(cache, account_id), cache |-> cache, lookups |-> 0]
    ELSE LET user_obj == User(jira_handle, account_id)
             name     == IF ~user_obj.ok THEN UnknownUser
                         ELSE IF user_obj.has_name THEN user_obj.displayName
                         ELSE account_id
         IN  [ret |-> name, cache |-> CachePut(cache, account_id, name), lookups |-> 1]

\* get_display_name(account_id, jira) with user_cache = cache: what it returns,
\* user_cache afterwards, and how many times it called jira.user
GetDisplayName(account_id, jira_handle, cache) ==
    IF Cached(cache, account_id)
    THEN [ret |-> CacheGet(cache, account_id), cache |-> cache, lookups |-> 0]
    ELSE LET user_obj == User(jira_handle, account_id)
         IN  IF ~user_obj.ok
             THEN [ret |-> UnknownUser, cache |-> cache, lookups |-> 1]
             ELSE LET name == IF user_obj.has_name THEN user_obj.displayName
                              ELSE account_id
                  IN  [ret |-> name, cache |-> CachePut(cache, account_id, name),
                       lookups |-> 1]

GetDisplayNameCall ==
    /\ running
    /\ \E account_id \in KnownIds, jira_handle \in Jiras :
         LET g == GetDisplayName(account_id, jira_handle, user_cache)
         IN  /\ user_cache' = g.cache
             /\ call' = [fn |-> "get_display_name", account_id |-> account_id,
                         jira |-> jira_handle, cache |-> user_cache, ret |-> g.ret,
                         lookups |-> g.lookups]
    /\ UNCHANGED ui_vars

----------------------------------------------------------------------------
(* resolve_mentions *)

\* None, kept apart from every str: its one element is not a character
NoneText == <<"None">>

\* the literal start of the pattern r"\[~accountid:([^\]]+)\]"
MarkerPrefix == <<"[", "~", "a", "c", "c", "o", "u", "n", "t", "i", "d", ":">>

\* the length of the longest prefix of s without the character c
RECURSIVE RunUntil(_, _)
RunUntil(s, c) == IF s # <<>> /\ Head(s) # c THEN 1 + RunUntil(Tail(s), c) ELSE 0

\* the match of the pattern with .+ for the id: up to the last "]" of s
MatchLenGreedy(s) ==
    LET n == Len(MarkerPrefix)
        closing == {j \in (n + 2)..Len(s) : s[j] = "]"}
    IN  IF Len(s) > n /\ SubSeq(s, 1, n) = MarkerPrefix /\ closing # {}
        THEN CHOOSE j \in closing : \A k \in closing : k <= j
        ELSE 0

\* the length of the match of the pattern at the start of s, 0 without a match:
\* the prefix, one or more characters other than "]", and "]"
MatchLen(s) ==
    LET n == Len(MarkerPrefix)
    IN  IF Len(s) > n /\ SubSeq(s, 1, n) = MarkerPrefix
        THEN LET k == RunUntil(SubSeq(s, n + 1, Len(s)), "]")
             IN  IF k >= 1 /\ n + k < Len(s) THEN n + k + 1 ELSE 0
        ELSE 0

\* re.sub over s, left to right: every match becomes "@" and the name that
\* get_display_name returns for the group; the calls see the cache as the
\* calls before them left it
RECURSIVE Sub(_, _, _)
Sub(s, jira_handle, cache) ==
    IF s = <<>> THEN [ret |-> <<>>, cache |-> cache, lookups |-> 0]
    ELSE LET m == MatchLen(s)
         IN  IF m > 0
             THEN LET g == GetDisplayName(SubSeq(s, Len(MarkerPrefix) + 1, m - 1),
                                          jira_handle, cache)
                  IN  [Sub(SubSeq(s, m + 1, Len(s)), jira_handle, g.cache) EXCEPT
                          !.ret = <<"@">> \o g.ret \o @,
                          !.lookups = g.lookups + @]
             ELSE [Sub(Tail(s), jira_handle, cache) EXCEPT !.ret = <<Head(s)>> \o @]

\* resolve_mentions(text, jira) with user_cache = cache
ResolveMentions(text, jira_handle, cache) ==
    IF text = NoneText \/ text = <<>>
    THEN [ret |-> text, cache |-> cache, lookups |-> 0]
    ELSE Sub(text, jira_handle, cache)

\* the texts resolve_mentions is called with
MentionTexts ==
    { NoneText,
      <<>>,
      <<"h", "i", " ", "]">>,
      <<"[", "~", "a", "c", "c", "o", "u", "n", "t", "i", "d", ":", "u",
        "1", "]", " ", "s", "a", "i", "d", " ", "h", "i">>,
      <<"a", "[", "~", "a", "c", "c", "o", "u", "n", "t", "i", "d", ":",
        "u", "1", "]", "[", "~", "a", "c", "c", "o", "u", "n", "t", "i",
        "d", ":", "u", "2", "]">>,
      <<"[", "~", "a", "c", "c", "o", "u", "n", "t", "i", "d", ":", "]">>,
      <<"[", "~", "a", "c", "c", "o", "u", "n", "t", "i", "d", ":", "u",
        "1">>,
      <<"[", "~", "a", "c", "c", "o", "u", "n", "t", "i", "d", ":", "[",
        "~", "a", "c", "c", "o", "u", "n", "t", "i", "d", ":", "u", "2",
        "]", "]">> }

ResolveMentionsCall ==
    /\ running
    /\ \E text \in MentionTexts, jira_handle \in Jiras :
         LET r == ResolveMentions(text, jira_handle, user_cache)
         IN  /\ user_cache' = r.cache
             /\ call' = [fn |-> "resolve_mentions", text |-> text, jira |-> jira_handle,
                         cache |-> user_cache, ret |-> r.ret, lookups |-> r.lookups]
    /\ UNCHANGED ui_vars

----------------------------------------------------------------------------
(* search_tickets *)

SearchTicketsCall ==
    /\ running
    /\ \E search_input \in SearchInputs :
         \E outcome \in IssueOutcomes(FindKeys(search_input)) :
            call' = [fn |-> "search_tickets", search_input |-> search_input,
                     ticket_keys |-> FindKeys(search_input), outcome |-> outcome,
                     ret |-> FetchedIssues(FindKeys(search_input), outcome)]
    /\ UNCHANGED <<user_cache, ui_vars>>

----------------------------------------------------------------------------
(* get_ticket_conversation *)

\* how many comments a ticket has at most
MaxComments == 3

\* comment.author: with a displayName, with a name only, or with neither
\* (reading .name raises)
Comment(created, kind, author, body) ==
    [created |-> created, author |-> [kind |-> kind, text |-> author], body |-> body]

\* the comments of the tickets: created is the timestamp as the service
\* writes it, date "T" time, of one width
Comments ==
    { Comment(<<"1", "T", "2">>, "displayName", <<"A", "l">>, <<" ", "h", "i", " ">>),
      Comment(<<"1", "T", "1">>, "name", <<"b", "o">>, MarkerPrefix \o U1 \o <<"]">>),
      Comment(<<"2", "T", "1">>, "displayName", <<"B", "o">>, MarkerPrefix \o U2 \o <<"]">>),
      Comment(<<"1", "T", "3">>, "neither", <<>>, <<"x">>) }

\* what jira.issue(ticket_key, expand='comment') may do: raise with a message,
\* or return the issue with its comments in the order of the service (an
\* issue whose comment field has no comments attribute counts as no comment)
CommentFetches ==
    {[ok |-> FALSE, message |-> <<"4", "0", "4">>, comments |-> <<>>]}
      \cup {[ok |-> TRUE, message |-> <<>>, comments |-> cs] :
               cs \in UNION {InjSeqs(Comments, n) : n \in 0..MaxComments}}

\* the comments in the order of the service
UnsortedComments(cs) == cs

\* sorted(comments, key=lambda c: c.created): ascending by the string, stable
RECURSIVE SortedComments(_)
SortedComments(cs) ==
    IF cs = <<>> THEN <<>>
    ELSE LET n      == Len(cs)
             init   == SortedComments(SubSeq(cs, 1, n - 1))
             c      == cs[n]
             before == {i \in 1..Len(init) : ~StrLess(c.created, init[i].created)}
             k      == IF before = {} THEN 0
                       ELSE CHOOSE i \in before : \A j \in before : j <= i
         IN  SubSeq(init, 1, k) \o <<c>> \o SubSeq(init, k + 1, Len(init))

NoComments == <<"N", "o", " ", "C", "o", "m", "m", "e", "n", "t", "s">>

FailedPrefix ==
    <<"F", "a", "i", "l", "e", "d", " ", "t", "o", " ", "r", "e", "t", "r",
      "i", "e", "v", "e", " ", "c", "o", "m", "m", "e", "n", "t", "s", " ",
      "f", "o", "r", " ", "T", "i", "c", "k", "e", "t", " ">>

\* the message of the AttributeError for an author without a name
NoNameMessage == <<"n", "a", "m", "e">>

\* f"Failed to retrieve comments for Ticket {ticket_key}: {e}"
Failed(ticket_key, message) == FailedPrefix \o ticket_key \o <<":", " ">> \o message

\* f"{date} - {author} commented:\n{body}\n\n"
Entry(date, author, body) ==
    date \o <<" ", "-", " ">> \o author \o <<" ", "c", "o", "m", "m", "e", "n", "t", "e", "d", ":", "\n">>
         \o body \o <<"\n", "\n">>

\* the loop over the sorted comments, conv so far: the first author without a
\* name ends it with the exception, the names looked up until then stay cached
RECURSIVE Conversation(_, _, _, _)
Conversation(cs, conv, jira_handle, cache) ==
    IF cs = <<>> THEN [ok |-> TRUE, conv |-> conv, cache |-> cache]
    ELSE LET comment == Head(cs)
             date    == SplitAt(comment.created, "T")[1]
         IN  IF comment.author.kind = "neither"
             THEN [ok |-> FALSE, conv |-> conv, cache |-> cache]
             ELSE LET body == ResolveMentions(Strip(comment.body), jira_handle, cache)
                  IN  Conversation(Tail(cs),
                                   conv \o Entry(date, comment.author.text, body.ret),
                                   jira_handle, body.cache)

\* get_ticket_conversation(jira, ticket_key) with the fetch doing as told
GetTicketConversation(ticket_key, fetch, jira_handle, cache) ==
    IF ~fetch.ok THEN [ret |-> Failed(ticket_key, fetch.message), cache |-> cache]
    ELSE LET r == Conversation(SortedComments(fetch.comments), <<>>, jira_handle, cache)
         IN  IF ~r.ok THEN [ret |-> Failed(ticket_key, NoNameMessage), cache |-> r.cache]
             ELSE [ret |-> IF r.conv # <<>> THEN r.conv ELSE NoComments, cache |-> r.cache]

GetTicketConversationCall ==
    /\ running
    /\ \E ticket_key \in {A1}, fetch \in CommentFetches, jira_handle \in Jiras :
         LET r == GetTicketConversation(ticket_key, fetch, jira_handle, user_cache)
         IN  /\ user_cache' = r.cache
             /\ call' = [fn |-> "get_ticket_conversation", ticket_key |-> ticket_key,
                         fetch |-> fetch, jira |-> jira_handle, cache |-> user_cache,
                         ret |-> r.ret]
    /\ UNCHANGED ui_vars

----------------------------------------------------------------------------
(* The helper specification: the module-level functions called one by one *)

InitHelpers == Launched(NoFile, <<>>)

NextHelpers ==
    \/ GetDisplayNameCall
    \/ ResolveMentionsCall
    \/ SearchTicketsCall

SpecHelpers == InitHelpers /\ [][NextHelpers]_vars

\* the conversations of the tickets built one after the other
NextConversation == GetTicketConversationCall

SpecConversation == InitHelpers /\ [][NextConversation]_vars

----------------------------------------------------------------------------
(* The resolver specification: several fetch_details threads call           *)
(* get_display_name at the same time. A thread is what it still has to       *)
(* resolve, where it is in get_display_name, and the calls it has finished;  *)
(* one step is one access to user_cache or one call of jira.user.            *)

\* fetch_details threads that resolve at once
MaxResolvers == 2

\* the account ids mentioned in the description and the comments of a ticket,
\* in the order resolve_mentions meets them
MentionLists == {<<U1>>, <<U2, U1>>}

\* everything the steps of get_display_name leave alone
resolver_frame ==
    <<tickets, locked_tickets, current_page, jira, ticket_list, selection, text_display,
      last, running, session_vars, nonempty_fetches, call>>

\* threading.Thread(target=fetch_details).start(), the thread at its first
\* get_display_name
StartFetchDetails ==
    /\ running
    /\ Len(threads) < MaxResolvers
    /\ \E ids \in MentionLists :
         threads' = Append(threads, [todo |-> ids, pc |-> "test", name |-> <<>>,
                                     calls |-> <<>>])
    /\ UNCHANGED <<user_cache, resolver_frame>>

\* the thread after get_display_name returned ret
Returned(thread, looked, ok, ret) ==
    [todo  |-> Tail(thread.todo),
     pc    |-> IF Tail(thread.todo) = <<>> THEN "done" ELSE "test",
     name  |-> <<>>,
     calls |-> Append(thread.calls, [account_id |-> Head(thread.todo), looked |-> looked,
                                     ok |-> ok, ret |-> ret])]

\* if account_id in user_cache
TestCached ==
    /\ \E i \in 1..Len(threads) :
         /\ threads[i].pc = "test"
         /\ threads' = [threads EXCEPT ![i].pc =
                            IF Cached(user_cache, Head(threads[i].todo)) THEN "read"
                            ELSE "user"]
    /\ UNCHANGED <<user_cache, resolver_frame>>

\* return user_cache[account_id]
ReadCached ==
    /\ \E i \in 1..Len(threads) :
         /\ threads[i].pc = "read"
         /\ Cached(user_cache, Head(threads[i].todo))   \* a KeyError otherwise
         /\ threads' = [threads EXCEPT ![i] =
                            Returned(threads[i], FALSE, TRUE,
                                     CacheGet(user_cache, Head(threads[i].todo)))]
    /\ UNCHANGED <<user_cache, resolver_frame>>

\* user_obj = jira.user(account_id) and the getattr, or the except clause
JiraUser ==
    /\ \E i \in 1..Len(threads), user_obj \in UserAnswers :
         /\ threads[i].pc = "user"
         /\ threads' = [threads EXCEPT ![i] =
                            IF user_obj.ok
                            THEN [threads[i] EXCEPT
                                     !.pc = "store",
                                     !.name = IF user_obj.has_name THEN user_obj.displayName
                                              ELSE Head(threads[i].todo)]
                            ELSE Returned(threads[i], TRUE, FALSE, UnknownUser)]
    /\ UNCHANGED <<user_cache, resolver_frame>>

\* user_cache[account_id] = name; return name
StoreName ==
    /\ \E i \in 1..Len(threads) :
         /\ threads[i].pc = "store"
         /\ user_cache' = CachePut(user_cache, Head(threads[i].todo), threads[i].name)
         /\ threads' = [threads EXCEPT ![i] =
                            Returned(threads[i], TRUE, TRUE, threads[i].name)]
    /\ UNCHANGED resolver_frame

InitResolvers == Launched(NoFile, <<>>)

NextResolvers ==
    \/ StartFetchDetails
    \/ TestCached
    \/ ReadCached
    \/ JiraUser
    \/ StoreName

SpecResolvers == InitResolvers /\ [][NextResolvers]_vars

----------------------------------------------------------------------------
(* The delivery specification: fetch_details runs in its thread, hands      *)
(* update_ticket_details to the main loop, and the main loop runs it. The    *)
(* remote calls of the thread return or raise, and the main loop keeps       *)
(* running its callbacks: both steps are weakly fair.                        *)

NoDescription == <<"N", "o", " ", "D", "e", "s", "c", "r", "i", "p", "t", "i", "o", "n">>

\* ticket.fields.description of the selected ticket: None or a text
Descriptions == {NoneText, MarkerPrefix \o U1 \o <<"]">>}

\* what the fetch of the comments may do in the thread: raise, or return no
\* comment or the one comment of an author without displayName
DetailFetches ==
    {f \in CommentFetches :
        \/ f.comments = <<>>
        \/ Len(f.comments) = 1 /\ f.comments[1].author.kind = "name"}

\* the thread that raised out of fetch_details when the comments failed
HandedUnlessFailed(job, description, conversation) ==
    [ticket_id |-> job.ticket_id,
     pc |-> IF Len(conversation) >= Len(FailedPrefix)
               /\ SubSeq(conversation, 1, Len(FailedPrefix)) = FailedPrefix
            THEN "raised" ELSE "handed",
     description |-> description, conversation |-> conversation]

\* the thread after self.text_display.after(0, lambda: ...)
Handed(job, description, conversation) ==
    [ticket_id |-> job.ticket_id, pc |-> "handed", description |-> description,
     conversation |-> conversation]

\* what update_ticket_details writes for a handed job
DetailTextOf(job) ==
    [kind |-> "detail", n |-> 0, ticket_id |-> job.ticket_id,
     description |-> job.description, conversation |-> job.conversation]

\* the body of fetch_details, lines 299-304
FetchDetails ==
    /\ running
    /\ \E i \in 1..Len(threads), description \in Descriptions, fetch \in DetailFetches,
          jira_handle \in Jiras :
         /\ "pc" \notin DOMAIN threads[i]
         /\ LET d == ResolveMentions(IF description \in {NoneText, <<>>} THEN NoDescription
                                     ELSE description,
                                     jira_handle, user_cache)
                 c == GetTicketConversation(threads[i].ticket_id, fetch, jira_handle,
                                            d.cache)
             IN  /\ threads' = [threads EXCEPT ![i] = Handed(threads[i], d.ret, c.ret)]
                 /\ user_cache' = c.cache
    /\ UNCHANGED resolver_frame

\* the main loop runs the callback of a handed job: update_ticket_details
DeliverDetails ==
    /\ running
    /\ \E i \in 1..Len(threads) :
         /\ "pc" \in DOMAIN threads[i]
         /\ threads[i].pc = "handed"
         /\ text_display' = DetailTextOf(threads[i])
         /\ threads' = SubSeq(threads, 1, i - 1) \o SubSeq(threads, i + 1, Len(threads))
         /\ last' = Record("deliver", "none", FALSE, <<>>, {threads[i].ticket_id},
                           <<>>, <<>>, Before)
    /\ UNCHANGED <<tickets, locked_tickets, current_page, jira, ticket_list, selection,
                   running, session_vars, helper_vars, nonempty_fetches>>

\* the tool is started on the file an earlier run left with one key locked
InitDelivery == Launched(SavedFile({A1}), <<A1>>)

NextDelivery ==
    \/ OnTicketSelect
    \/ FetchDetails
    \/ DeliverDetails

SpecDelivery ==
    /\ InitDelivery
    /\ [][NextDelivery]_vars
    /\ WF_vars(FetchDetails)
    /\ WF_vars(DeliverDetails)

----------------------------------------------------------------------------
(* The paging specification: the tool is started without a file and pages   *)
(* further into the listing.                                                *)

InitPaging == Launched(NoFile, <<>>)

NextPaging ==
    \/ FetchTicketsOn
    \/ SearchTicketAction
    \/ OnTicketSelect
    \/ UpdateTicketDetails
    \/ LockSelectedTickets

SpecPaging == InitPaging /\ [][NextPaging]_vars

----------------------------------------------------------------------------
(* The session specification: the tool is started on a file an earlier run  *)
(* or the user's editor left, used while the service cannot be reached,      *)
(* closed and started again.                                                 *)

\* the values of option tickets of [LOCKED] at the first start
SessionTickets ==
    { <<>>,
      A1,
      A2 \o <<" ", ",", ",">> \o A1,
      A1 \o <<"*", ",">> \o B5 }

\* the files at the first start
SessionFiles ==
    {NoFile} \cup
    {[has_locked |-> TRUE, tickets |-> t, token |-> k] :
        t \in SessionTickets, k \in {<<>>, <<"t">>}}

InitSession ==
    \E file \in SessionFiles :
      \E order \in Orderings(LoadLockedTickets(file)) : Launched(file, order)

NextSession ==
    \/ OnTicketSelectOffline
    \/ LockSelectedTickets
    \/ EditToken
    \/ ToggleSaveToken
    \/ OnClosing
    \/ JiraUIInit

SpecSession == InitSession /\ [][NextSession]_vars


----------------------------------------------------------------------------
(* The marked-key specification: the tool is started on a file whose        *)
(* [LOCKED] section holds a key that ends in the marker, the case the test  *)
(* of display_key.endswith("*") in update_ticket_list_display is there for. *)

MarkedKey == A1 \o <<"*">>

MarkedFile == [has_locked |-> TRUE, tickets |-> MarkedKey, token |-> <<>>]

InitMarked == Launched(MarkedFile, <<MarkedKey>>)

NextMarked ==
    \/ FetchTickets
    \/ SearchTicketAction
    \/ OnTicketSelect
    \/ UpdateTicketDetails
    \/ LockSelectedTickets

SpecMarked == InitMarked /\ [][NextMarked]_vars

----------------------------------------------------------------------------
(* Properties *)

\* the set of the elements of a sequence
Range(f) == {f[i] : i \in 1..Len(f)}

\* no two entries of ts have the same key
UniqueKeys(ts) == \A i, j \in 1..Len(ts) : i # j => ts[i].key # ts[j].key

\* C1: after any sequence of fetchNextPage, search, toggleLock and
\* selectionDetail from the startup state, the collection never holds two
\* tickets with the same key.
C1_NoDuplicateKey == UniqueKeys(tickets)

\* a fetch or a search has just merged an answer that brought a key the
\* collection already held, or brought one key twice
C1_Witness ==
    /\ last.op \in {"fetch", "search"}
    /\ last.res # <<>>
    /\ \/ Range([i \in 1..Len(last.res) |-> last.res[i].key]) \cap last.pre.keys # {}
       \/ ~UniqueKeys(last.res)
    /\ Len(tickets) = 2

\* C2: a key that is in lockedSet and in the collection is still in the
\* collection after every fetchNextPage and every search, whatever the remote
\* service returned (an empty or a failing answer included).
C2_LockedKeyStays ==
    last.op \in {"fetch", "search"} =>
        \A k \in last.pre.locked \cap last.pre.keys :
            \E i \in 1..Len(tickets) : tickets[i].key = k

\* a first-page fetch got nothing from the service (the listing failed) while
\* the collection held a locked and an unlocked ticket: the unlocked one is
\* gone, the locked one is still there
C2_Witness ==
    /\ last.op = "fetch" /\ last.conn = "ok" /\ last.failed
    /\ last.pre.page = 1
    /\ last.pre.keys \ last.pre.locked # {}
    /\ last.pre.keys \cap last.pre.locked # {}
    /\ \A i \in 1..Len(tickets) : tickets[i].key \in last.pre.locked

\* C3: selecting the label at any position of the displayed list loads and
\* shows the detail of the ticket whose stored key is that label with the lock
\* marker stripped.
C3_SelectShowsLabel ==
    (last.op = "select" /\ last.started # <<>>) =>
        last.started[1].ticket_id = Rstrip(ticket_list[Min(selection)])

\* C4: whenever a remote call made by fetchNextPage, search or selectionDetail
\* fails (no connection, the page listing fails, the by-key fetch of a
\* selection fails, every by-key fetch of a search fails), the collection,
\* lockedSet and pageCursor are what they were before the operation.
C4_FailureKeepsState ==
    [][(last'.op \in {"fetch", "search", "select"} /\ last'.failed) =>
          /\ tickets' = tickets
          /\ locked_tickets' = locked_tickets
          /\ current_page' = current_page]_vars

\* what the claim says of the collection after a search
C5_MergedAsClaimed ==
    LET found == {last.res[i].key : i \in 1..Len(last.res)}
    IN  /\ {tickets[i].key : i \in 1..Len(tickets)}
              = (last.pre.locked \cap last.pre.keys) \cup found
        /\ UniqueKeys(tickets)
        /\ \A i \in 1..Len(tickets) :
              /\ tickets[i].key \in last.pre.locked \/ tickets[i].key \in found
              /\ tickets[i].key \in found => tickets[i] \in Range(last.res)

\* C5 as stated: after every search that asked the gateway for at least one
\* key, the collection is (the tickets locked and present before) union (the
\* tickets the gateway returned), without duplicate key, every other ticket
\* removed, and a stored ticket whose key was returned replaced by the result.
C5_EverySearchMerges ==
    (last.op = "search" /\ (last.res # <<>> \/ (last.failed /\ last.conn # "fail")))
        => C5_MergedAsClaimed

\* C5 as amended: the same after every search for which the gateway returned
\* at least one ticket.
C5_FoundSearchMerges ==
    (last.op = "search" /\ last.res # <<>>) => C5_MergedAsClaimed

\* a search returned a locked key the collection held, while the collection
\* also held an unlocked ticket that the search did not return: the locked
\* ticket is now the returned issue and the unlocked one is gone
C5_Witness ==
    /\ last.op = "search" /\ last.res # <<>>
    /\ \E i \in 1..Len(last.res) : last.res[i].key \in last.pre.locked \cap last.pre.keys
    /\ \E k \in last.pre.keys \ last.pre.locked :
          \A i \in 1..Len(last.res) : last.res[i].key # k
    /\ Len(tickets) = 1 /\ tickets[1] \in Range(last.res)

\* C6: a fetchNextPage that starts a fresh browse (first page) and gets its
\* page from the service removes the unlocked tickets, retains every locked
\* ticket as it was, and then appends the tickets of the page whose key is not
\* already present.
C6_FreshBrowseResets ==
    [][(last'.op = "fetch" /\ last'.conn = "ok" /\ ~last'.failed /\ current_page = 1) =>
          LET retained == SelectSeq(tickets, LAMBDA t : t.key \in locked_tickets)
              present  == {retained[i].key : i \in 1..Len(retained)}
          IN  tickets' = retained \o SelectSeq(last'.res, LAMBDA t : t.key \notin present)]_vars

\* a first-page fetch while a locked and an unlocked ticket were held, whose
\* page brought the locked key again and the unlocked key
C6_Witness ==
    /\ last.op = "fetch" /\ last.conn = "ok" /\ ~last.failed
    /\ last.pre.page = 1
    /\ last.pre.keys \ last.pre.locked # {}
    /\ \E i, j \in 1..Len(last.res) :
          /\ last.res[i].key \in last.pre.keys \cap last.pre.locked
          /\ last.res[j].key \in last.pre.keys \ last.pre.locked

\* C10: toggleLock flips the lockedSet membership of exactly the keys of the
\* selected labels and leaves every other membership, the collection and
\* pageCursor unchanged; the same toggleLock applied twice restores lockedSet.
C10_ToggleLockFlips ==
    [][/\ last'.op = "lock" =>
            LET given == {k \in KeysOf(tickets) :
                            \E i \in selection :
                               ticket_list[i] = k \/ ticket_list[i] = k \o <<"*">>}
            IN  /\ locked_tickets' = (locked_tickets \ given) \cup (given \ locked_tickets)
                /\ tickets' = tickets
                /\ current_page' = current_page
       /\ (last.op = "lock" /\ last'.op = "lock" /\ last'.keys = last.keys) =>
            locked_tickets' = last.pre.locked]_vars

\* one toggleLock has just unlocked a locked key and locked an unlocked one
C10_Witness ==
    /\ last.op = "lock"
    /\ last.keys \cap last.pre.locked # {}
    /\ last.keys \ last.pre.locked # {}
    /\ locked_tickets = (last.pre.locked \ last.keys) \cup (last.keys \ last.pre.locked)

----------------------------------------------------------------------------
(* Properties of the display order, stated without the operators of the model *)

\* the positions of the hyphens of key k
C7_Hyphens(k) == {i \in 1..Len(k) : k[i] = "-"}

\* k is prefix, one hyphen, decimal numeral
C7_WellFormed(k) ==
    /\ Cardinality(C7_Hyphens(k)) = 1
    /\ \E h \in C7_Hyphens(k) :
          h < Len(k) /\ \A i \in (h + 1)..Len(k) : k[i] \in Digits

C7_Prefix(k) ==
    IF C7_WellFormed(k)
    THEN SubSeq(k, 1, (CHOOSE h \in C7_Hyphens(k) : TRUE) - 1)
    ELSE k

\* the value of the numeral that starts at position i of k
RECURSIVE C7_Value(_, _, _)
C7_Value(k, i, acc) ==
    IF i > Len(k) THEN acc
    ELSE C7_Value(k, i + 1,
                  10 * acc + (CHOOSE d \in 0..9 : CodePointOrder[d + 5] = k[i]))

C7_Number(k) ==
    IF C7_WellFormed(k)
    THEN C7_Value(k, (CHOOSE h \in C7_Hyphens(k) : TRUE) + 1, 0)
    ELSE 0

\* key a must come before key b
C7_Before(a, b, locked) ==
    \/ a \in locked /\ b \notin locked
    \/ /\ (a \in locked) = (b \in locked)
       /\ \/ StrLess(C7_Prefix(a), C7_Prefix(b))
          \/ C7_Prefix(a) = C7_Prefix(b) /\ C7_Number(a) > C7_Number(b)

\* the label of key k
C7_Label(k, locked) == IF k \in locked THEN k \o <<"*">> ELSE k

\* C7: the listbox lists every ticket of the collection exactly once, sorted
\* by (locked before unlocked, prefix ascending, number descending), a key that
\* is not prefix-hyphen-integer sorting with the whole key as prefix and number
\* 0; a label carries the marker "*" if and only if its key is in lockedSet.
C7_DisplayOrder ==
    /\ Len(ticket_list) = Len(tickets)
    /\ \A i \in 1..Len(tickets) :
          Cardinality({j \in 1..Len(ticket_list) :
                          ticket_list[j] = C7_Label(tickets[i].key, locked_tickets)}) = 1
    /\ \A j \in 1..Len(ticket_list) :
          \E i \in 1..Len(tickets) :
             ticket_list[j] = C7_Label(tickets[i].key, locked_tickets)
    /\ \A i, j \in 1..Len(tickets) :
          C7_Before(tickets[i].key, tickets[j].key, locked_tickets) =>
             \E p, q \in 1..Len(ticket_list) :
                /\ p < q
                /\ ticket_list[p] = C7_Label(tickets[i].key, locked_tickets)
                /\ ticket_list[q] = C7_Label(tickets[j].key, locked_tickets)

\* the listbox was redrawn for a collection, not in display order, that holds
\* a locked and an unlocked ticket, two keys of one prefix, a key of another
\* prefix and a key that is not prefix-hyphen-integer
C7_Witness ==
    /\ last.op = "lock"
    /\ {A1x2, A1, A2, B5} = {tickets[i].key : i \in 1..Len(tickets)}
    /\ locked_tickets = {B5, A1}
    /\ tickets[1].key = A1x2 /\ tickets[2].key = A1

\* the collection holds A-2 (locked), A-1, B-5 and A-3 (locked)
C8_Case ==
    /\ {tickets[i].key : i \in 1..Len(tickets)} = {A2, A1, B5, A3}
    /\ locked_tickets = {A2, A3}

\* C8 as stated: for a collection holding A-2 (locked), A-1, B-5 and A-3
\* (locked), the display order is [A-2*, A-3*, A-1, B-5].
C8_ExampleAsStated ==
    C8_Case => ticket_list = <<A2 \o <<"*">>, A3 \o <<"*">>, A1, B5>>

\* C8 as amended: for that collection the display order is
\* [A-3*, A-2*, A-1, B-5] (the number descends among the locked keys too).
C8_ExampleDescending ==
    C8_Case => ticket_list = <<A3 \o <<"*">>, A2 \o <<"*">>, A1, B5>>

\* that collection, inserted in the order of the claim, after a toggleLock drew it
C8_Witness ==
    /\ C8_Case
    /\ last.op = "lock"
    /\ [i \in 1..Len(tickets) |-> tickets[i].key] = <<A2, A1, B5, A3>>

\* the labels at the selected positions, from the top of the listbox down
RECURSIVE C9_Pick(_, _, _)
C9_Pick(labels, sel, i) ==
    IF i > Len(labels) THEN <<>>
    ELSE (IF i \in sel THEN <<labels[i]>> ELSE <<>>) \o C9_Pick(labels, sel, i + 1)

\* the export returned the labels of the selected tickets, in display order
C9_LabelsInDisplayOrder ==
    /\ last.lines = C9_Pick(ticket_list, selection, 1)
    /\ \A n \in 1..Len(last.lines) :
          \E i \in 1..Len(tickets) :
             last.lines[n] = C7_Label(tickets[i].key, locked_tickets)

\* the selection of the example: A-1, not locked, and A-2, locked
C9_Case ==
    /\ {ticket_list[i] : i \in selection} = {A1, A2 \o <<"*">>}
    /\ A2 \in locked_tickets /\ A1 \notin locked_tickets

\* C9 as stated: exportSelection returns the display labels of the selected
\* keys, marker-suffixed for locked keys, in the current display order; for
\* A-1 and A-2 (locked) the lines are ["A-1", "A-2*"].
C9_ExportAsStated ==
    last.op = "export" =>
        /\ C9_LabelsInDisplayOrder
        /\ C9_Case => last.lines = <<A1, A2 \o <<"*">>>>

\* C9 as amended: the same, and for A-1 and A-2 (locked) the lines are
\* ["A-2*", "A-1"], the locked key first as in the display order.
C9_ExportInDisplayOrder ==
    last.op = "export" =>
        /\ C9_LabelsInDisplayOrder
        /\ C9_Case => last.lines = <<A2 \o <<"*">>, A1>>

\* A-1 and A-2 (locked) were exported from a listbox that shows other tickets too
C9_Witness ==
    /\ last.op = "export" /\ ~last.failed
    /\ C9_Case
    /\ Len(ticket_list) > 2
    /\ Len(last.lines) = 2

----------------------------------------------------------------------------
(* Properties of the session: the file, the token and the restart *)

\* C11: across shutdown followed by startup, lockedSet is preserved exactly
\* (what is loaded equals what was saved, for every set of ticket keys, the
\* empty set included), and the startup collection holds exactly one stub per
\* locked key.
C11_RestartRestoresLocked ==
    [][(~running /\ running') =>
          /\ last.op = "close"
          /\ locked_tickets' = last.pre.locked
          /\ locked_tickets' = locked_tickets
          /\ Len(tickets') = Cardinality(locked_tickets')
          /\ \A k \in locked_tickets' :
                Cardinality({i \in 1..Len(tickets') : tickets'[i] = Stub(k)}) = 1]_vars

\* the tool has just been started again on the file that a shutdown wrote
\* with three locked keys, one of them locked during the session that was
\* closed
C11_Witness ==
    /\ last.op = "restart"
    /\ locked_tickets = {A1, A1 \o <<"*">>, B5}
    /\ last.pre.locked = locked_tickets
    /\ Len(tickets) = 3
    /\ config_file.tickets = A1 \o <<",">> \o A1 \o <<"*", ",">> \o B5

\* C17: after shutdown, the persisted credential is non-blank only if the
\* user had opted in to saving it at shutdown time; when the user has not
\* opted in, the stored credential is blank even if a credential was stored
\* by an earlier run.
C17_TokenOnlyIfOptedIn ==
    ~running => (save_token_var \/ Strip(config_file.token) = <<>>)

\* the window was closed with the checkbox cleared while the field held the
\* token that the file held before: the file holds no token any more
C17_Witness ==
    /\ ~running
    /\ last.op = "close"
    /\ ~save_token_var
    /\ last.pre.token = <<"t">>
    /\ entry_token = <<"t">>
    /\ config_file.token = <<>>

----------------------------------------------------------------------------
(* Properties of the paging *)

\* C18: pageCursor (the offset the next listing asks for) starts at 0 and is
\* always pageSize times the number of fetchNextPage calls that returned a
\* non-empty page; a fetch that returns an empty page or fails, a search, a
\* toggleLock and a selection leave it unchanged; the k-th successful fetch
\* asked for offset pageSize * (k - 1).
C18_CursorCountsPages ==
    /\ StartAt(current_page) = PageSize * nonempty_fetches
    /\ (last.op # "init" /\ ~(last.op = "fetch" /\ last.res # <<>>)) =>
          StartAt(current_page) = StartAt(last.pre.page)
    /\ (last.op = "fetch" /\ last.conn = "ok") =>
          last.start_at = PageSize * (IF last.res # <<>> THEN nonempty_fetches - 1
                                      ELSE nonempty_fetches)

\* the second fetch that got a non-empty page has just returned: it asked for
\* offset 10 and the next one will ask for offset 20
C18_Witness ==
    /\ last.op = "fetch" /\ last.res # <<>>
    /\ nonempty_fetches = 2
    /\ last.start_at = 10
    /\ StartAt(current_page) = 20

----------------------------------------------------------------------------
(* Properties of the search report and of the selection *)

\* C15: the count reported after a search equals the number of tickets the
\* search found (the tickets the gateway returned for the keys of the input,
\* counted as returned or by distinct key), for every lockedSet and prior
\* collection.
C15_CountIsFound ==
    (last.op = "search" /\ last.res # <<>>) =>
        /\ text_display.kind = "found"
        /\ text_display.n \in {Len(last.res), Cardinality(KeysOf(last.res))}

\* C16: during selectionDetail the interface thread makes no remote call
\* (connecting, fetching the full detail of a stub and assembling the
\* conversation all run in the background task), so that a remote call that
\* never returns cannot keep the interface thread from the next user action.
\* The handler on_ticket_select runs on the interface thread up to the start
\* of the thread: last.conn and last.res are the connection it made and the
\* issue it loaded there.
C16_SelectCallsOffMainThread ==
    last.op = "select" => (last.conn = "none" /\ last.res = <<>>)

\* C20: selectionDetail on a stub replaces that stub by the full ticket at
\* the same position with the same key, and selectionDetail (on a stub or a
\* full ticket, succeeding or failing) never changes the sequence of keys of
\* the collection, lockedSet or pageCursor. The stub is the one of the key
\* whose detail the handler goes on to fetch.
C20_SelectKeepsFrame ==
    [][last'.op = "select" =>
          /\ Len(tickets') = Len(tickets)
          /\ \A i \in 1..Len(tickets) : tickets'[i].key = tickets[i].key
          /\ locked_tickets' = locked_tickets
          /\ current_page' = current_page
          /\ \A i \in 1..Len(tickets) :
                IF last'.started # <<>> /\ tickets[i] = Stub(last'.started[1].ticket_id)
                THEN tickets'[i].fields \in Summaries
                ELSE tickets'[i] = tickets[i]]_vars

\* a selection has just loaded the stub at the second position of the
\* collection: the full ticket is at the second position and the stub at the
\* first is still a stub
C20_Witness ==
    /\ last.op = "select" /\ ~last.failed
    /\ Len(last.res) = 1
    /\ Len(tickets) = 2
    /\ tickets[2] = last.res[1]
    /\ tickets[1].fields = "none"
    /\ last.started = <<[ticket_id |-> tickets[2].key]>>

----------------------------------------------------------------------------
(* Properties of the helper functions *)

\* C12: resolve(userId) never raises. When the id is cached it returns the
\* cached name without a remote call; otherwise it makes one remote lookup and
\* on success caches and returns the name (the displayName of the user, or
\* the id itself for a user without one); on lookup failure it returns
\* "Unknown User" and leaves the cache unchanged, so that a later resolve of
\* the same id performs a new remote lookup.
C12_ResolveContract ==
    [][call'.fn = "get_display_name" =>
          LET id     == call'.account_id
              answer == call'.jira[id]
              name   == IF answer.has_name THEN answer.displayName ELSE id
          IN  /\ IF \E p \in user_cache : p[1] = id
                 THEN /\ call'.lookups = 0
                      /\ <<id, call'.ret>> \in user_cache
                      /\ user_cache' = user_cache
                 ELSE /\ call'.lookups = 1
                      /\ IF answer.ok
                         THEN /\ call'.ret = name
                              /\ user_cache' = user_cache \cup {<<id, name>>}
                         ELSE /\ call'.ret = UnknownUser
                              /\ user_cache' = user_cache
              /\ (/\ call.fn = "get_display_name"
                  /\ call.account_id = id
                  /\ call.lookups = 1
                  /\ ~call.jira[id].ok) => call'.lookups = 1]_vars

\* a lookup has just failed while the other id was cached: the sentinel was
\* returned and the cache holds the other id only
C12_Witness ==
    /\ call.fn = "get_display_name"
    /\ call.account_id = U1
    /\ call.lookups = 1
    /\ call.ret = UnknownUser
    /\ user_cache = {<<U2, <<"A", "l">>>>}

\* the name that resolve gives for id in a call that started with cache
C14_Name(id, jira_handle, cache) ==
    IF \E p \in cache : p[1] = id THEN (CHOOSE p \in cache : p[1] = id)[2]
    ELSE IF id \in KnownIds /\ jira_handle[id].ok
         THEN IF jira_handle[id].has_name THEN jira_handle[id].displayName ELSE id
         ELSE UnknownUser

\* the first "]" of text at or after position i (0: none)
C14_Close(text, i) ==
    IF \E j \in i..Len(text) : text[j] = "]"
    THEN Min({j \in i..Len(text) : text[j] = "]"})
    ELSE 0

\* the positions where a marker [~accountid:ID] starts: the literal start, a
\* non-empty ID and the next "]"
C14_Markers(text) ==
    {i \in 1..Len(text) :
        /\ i + 11 <= Len(text)
        /\ SubSeq(text, i, i + 11) = MarkerPrefix
        /\ C14_Close(text, i + 12) > i + 12}

\* text with every marker, from left to right, replaced by "@" and the name
RECURSIVE C14_Rewritten(_, _, _)
C14_Rewritten(text, jira_handle, cache) ==
    IF C14_Markers(text) = {} THEN text
    ELSE LET i == Min(C14_Markers(text))
             j == C14_Close(text, i + 12)
         IN  SubSeq(text, 1, i - 1) \o <<"@">>
               \o C14_Name(SubSeq(text, i + 12, j - 1), jira_handle, cache)
               \o C14_Rewritten(SubSeq(text, j + 1, Len(text)), jira_handle, cache)

\* C14: rewrite(text) returns text unchanged when it contains no mention
\* marker (empty or absent text included), and otherwise replaces every marker
\* [~accountid:ID] by "@" followed by resolve(ID), leaving all other
\* characters and their order unchanged.
C14_RewriteMarkers ==
    call.fn = "resolve_mentions" =>
        /\ C14_Markers(call.text) = {} => call.ret = call.text
        /\ call.ret = C14_Rewritten(call.text, call.jira, call.cache)

\* a text with two markers has just been rewritten, the first id cached and
\* the lookup of the second failing
C14_Witness ==
    /\ call.fn = "resolve_mentions"
    /\ Cardinality(C14_Markers(call.text)) = 2
    /\ call.lookups = 1
    /\ call.ret = <<"a", "@", "A", "l", "@">> \o UnknownUser

\* C19: searchByKeys over a list of keys returns the tickets of exactly the
\* keys whose by-key fetch succeeds, in input order; a failing fetch for one
\* key never prevents the fetch of the keys after it, and it is not reported:
\* nothing is displayed and nothing but the returned list tells of it.
C19_SearchKeepsSuccesses ==
    [][call'.fn = "search_tickets" =>
          LET keys      == call'.ticket_keys
              succeeded == {i \in 1..Len(keys) : call'.outcome[i] # "none"}
              ret       == call'.ret
          IN  /\ Len(ret) = Cardinality(succeeded)
              /\ \E f \in [1..Len(ret) -> succeeded] :
                    /\ \A a, b \in 1..Len(ret) : a < b => f[a] < f[b]
                    /\ \A a \in 1..Len(ret) :
                          /\ ret[a].key = keys[f[a]]
                          /\ ret[a].fields = call'.outcome[f[a]]
              /\ UNCHANGED <<text_display, ticket_list, tickets>>]_vars

\* a search of two keys has just returned the second one only: the fetch of
\* the first one failed
C19_Witness ==
    /\ call.fn = "search_tickets"
    /\ call.ticket_keys = <<A2, A1>>
    /\ call.outcome[1] = "none"
    /\ Len(call.ret) = 1
    /\ call.ret[1].key = A1

\* the time of a comment: its created timestamp read as a number
C13_Digit(c) == CHOOSE n \in 0..9 : <<"0", "1", "2", "3", "4", "5", "6", "7", "8", "9">>[n + 1] = c

C13_Time(comment) == 10 * C13_Digit(comment.created[1]) + C13_Digit(comment.created[3])

\* the entry of one comment: its date, its author and its body, stripped and
\* with the mentions rewritten
C13_Entry(comment, jira_handle, cache) ==
    <<comment.created[1]>> \o <<" ", "-", " ">> \o comment.author.text
        \o <<" ", "c", "o", "m", "m", "e", "n", "t", "e", "d", ":", "\n">>
        \o C14_Rewritten(Strip(comment.body), jira_handle, cache) \o <<"\n", "\n">>

RECURSIVE C13_Concat(_, _, _, _)
C13_Concat(cs, order, jira_handle, cache) ==
    IF order = <<>> THEN <<>>
    ELSE C13_Entry(cs[Head(order)], jira_handle, cache)
           \o C13_Concat(cs, Tail(order), jira_handle, cache)

C13_IsFailure(ret, ticket_key) ==
    /\ Len(ret) > Len(FailedPrefix \o ticket_key)
    /\ SubSeq(ret, 1, Len(FailedPrefix \o ticket_key)) = FailedPrefix \o ticket_key

\* C13: buildConversation renders the comments of the ticket in ascending
\* order of their creation timestamps whatever the order the service returned
\* them in, one entry per comment; it returns the literal "No Comments" when
\* the comment list is empty, and it returns an error string, never raising,
\* when the ticket fetch fails (a comment whose author cannot be read counts
\* as a failed fetch).
C13_ConversationAscending ==
    call.fn = "get_ticket_conversation" =>
        LET cs == call.fetch.comments
        IN  IF ~call.fetch.ok \/ \E i \in 1..Len(cs) : cs[i].author.kind = "neither"
            THEN C13_IsFailure(call.ret, call.ticket_key)
            ELSE IF cs = <<>> THEN call.ret = NoComments
            ELSE /\ ~C13_IsFailure(call.ret, call.ticket_key)
                 /\ call.ret # NoComments
                 /\ \E order \in InjSeqs(1..Len(cs), Len(cs)) :
                       /\ \A a, b \in 1..Len(cs) :
                             a < b => C13_Time(cs[order[a]]) <= C13_Time(cs[order[b]])
                       /\ call.ret = C13_Concat(cs, order, call.jira, call.cache)

\* three comments that the service returned latest first and earliest last
\* have just been rendered
C13_Witness ==
    /\ call.fn = "get_ticket_conversation"
    /\ call.fetch.ok
    /\ Len(call.fetch.comments) = 3
    /\ C13_Time(call.fetch.comments[1]) = 21
    /\ C13_Time(call.fetch.comments[2]) = 11
    /\ C13_Time(call.fetch.comments[3]) = 12
    /\ call.fetch.comments[3].author.text = <<"A", "l">>
    /\ call.ret = C13_Concat(call.fetch.comments, <<2, 3, 1>>, call.jira, call.cache)

----------------------------------------------------------------------------
(* Properties of the locked set and of the listbox *)

\* C23: in every reachable state every key of the locked set is the key of a
\* ticket of the collection, from the startup stubs through any sequence of
\* page fetches, searches, lock toggles and selections.
C23_LockedInCollection == locked_tickets \subseteq KeysOf(tickets)

\* a state in which that is not so: the key added by the toggle of the label
\* of a key that ends in the marker is the key of no ticket
C23_Case ==
    /\ last.op = "lock"
    /\ A1 \in locked_tickets
    /\ KeysOf(tickets) = {MarkedKey}

C24_Marked(label) == label # <<>> /\ label[Len(label)] = "*"

C24_UserActions == {"fetch", "search", "select", "lock"}

C24_Label(k, locked) == IF k \in locked /\ ~C24_Marked(k) THEN k \o <<"*">> ELSE k

----------------------------------------------------------------------------
(* Properties over time *)

\* C25: the page cursor is never reset: once one page fetch has returned a
\* non-empty page, no later page fetch removes a ticket from the collection
\* (it only appends), also when a search happened in between; from then on
\* tickets are removed only by a search.
C25_CursorNeverReset ==
    [][/\ current_page' >= current_page
       /\ (nonempty_fetches >= 1 /\ last'.op = "fetch") =>
             /\ Len(tickets') >= Len(tickets)
             /\ SubSeq(tickets', 1, Len(tickets)) = tickets
       /\ (nonempty_fetches >= 1 /\ KeysOf(tickets) \ KeysOf(tickets') # {}) =>
             /\ last'.op = "search"
             /\ (KeysOf(tickets) \ KeysOf(tickets')) \cap locked_tickets = {}]_vars

\* the second page has just been appended to a collection of one unlocked
\* ticket, the panel still showing the count of a search
C25_Witness ==
    /\ last.op = "fetch"
    /\ last.pre.page = 2
    /\ last.pre.keys = {A1}
    /\ locked_tickets = {}
    /\ [i \in 1..Len(tickets) |-> tickets[i].key] = <<A1, A2>>
    /\ current_page = 3
    /\ text_display.kind = "found"

\* C21: from the completion of a successful search until the next user
\* action the panel holds the found-count summary only and no ticket detail,
\* in every interleaving with the detail fetches started before the search:
\* a delivery that comes right after the search leaves the panel as it is.
C21_SummaryUntilNextAction ==
    [][(last.op = "search" /\ text_display.kind = "found" /\ last'.op = "deliver") =>
          text_display' = text_display]_vars

----------------------------------------------------------------------------
(* Properties of the threads *)

\* the calls of get_display_name that have returned
C22_Calls == UNION {{threads[i].calls[k] : k \in 1..Len(threads[i].calls)} :
                      i \in 1..Len(threads)}

\* the <<id, name>> pairs of the lookups that succeeded and were stored
C22_LookedUp ==
    {<<c.account_id, c.ret>> : c \in {d \in C22_Calls : d.looked /\ d.ok}}

\* C22: under any interleaving of concurrent resolve calls of several
\* fetch_details threads the cache maps an id only to a name that a
\* successful remote lookup returned for that id, never to "Unknown User"; an
\* entry is never removed; and a race on an uncached id costs a redundant
\* lookup and nothing else: every call returns the sentinel after its own
\* failed lookup, and otherwise a name that a successful lookup returned for
\* its id, and it never fails on the cache.
C22_CacheUnderRaces ==
    /\ [](/\ user_cache \subseteq C22_LookedUp
          /\ \A p \in user_cache : p[2] # UnknownUser
          /\ \A p, q \in user_cache : p[1] = q[1] => p = q
          /\ \A c \in C22_Calls :
                IF c.looked /\ ~c.ok THEN c.ret = UnknownUser
                ELSE <<c.account_id, c.ret>> \in C22_LookedUp
          /\ \A i \in 1..Len(threads) :
                threads[i].pc = "read" => Cached(user_cache, Head(threads[i].todo)))
    /\ [][\A p \in user_cache : Cached(user_cache', p[1])]_vars

\* two threads have both looked the same uncached id up, with different
\* names, and have both returned
C22_Witness ==
    /\ Len(threads) = 2
    /\ threads[1].pc = "done" /\ threads[2].pc = "done"
    /\ [account_id |-> U1, looked |-> TRUE, ok |-> TRUE, ret |-> <<"A", "l">>]
          \in C22_Calls
    /\ [account_id |-> U1, looked |-> TRUE, ok |-> TRUE, ret |-> U1] \in C22_Calls
    /\ user_cache = {<<U1, U1>>}

\* C26: every selection that puts the "Loading" placeholder on the panel is
\* eventually followed by the delivery, on the main thread, of the detail of
\* the ticket it started a thread for, which replaces the placeholder,
\* provided each remote call returns or fails and the main loop keeps running
\* its callbacks; a failing comment fetch or identity lookup still leads to
\* the delivery, with the error or the sentinel in the text.
C26_LoadingIsDelivered ==
    \A id \in RemoteKeys :
       (/\ last.op = "select"
        /\ text_display = LoadingText
        /\ last.started # <<>>
        /\ last.started[1].ticket_id = id)
          ~> (/\ last.op = "deliver"
              /\ text_display.kind = "detail"
              /\ text_display.ticket_id = id)

\* the detail of a ticket whose comment fetch failed has just been delivered
C26_Witness ==
    /\ last.op = "deliver"
    /\ text_display.kind = "detail"
    /\ text_display.ticket_id = A1
    /\ text_display.description = <<"@">> \o UnknownUser
    /\ text_display.conversation = Failed(A1, <<"4", "0", "4">>)

====
